---------------------------- MODULE Spec2Model ----------------------------
(***************************************************************************)
(* Weather Dashboard (src/Weather_dashboard_main.py): the WeatherApp       *)
(* widget as a state machine.  One action per Qt slot: the fetch button,   *)
(* the unit box, the favorites controls, the auto-refresh timer, the       *)
(* network manager's finished signal (_on_reply) and the dismissal of a    *)
(* modal message box.  Replies of requests in flight are delivered in any  *)
(* order; a modal message box blocks the user's input but not the event    *)
(* loop, so replies and timer ticks are still dispatched while it is open. *)
(***************************************************************************)
EXTENDS Integers, Sequences, FiniteSets, Bags, TLC

(* ------------------------------ bounds ------------------------------- *)
\* number of requests the network manager accepts from fetch() in one run
MaxRuns == 2
\* number of modal message boxes open at once (nested event loops)
MaxDialogs == 1
\* number of favorites the model lets the user keep
MaxFavorites == 1
\* longest hourly.time array the service sends
MaxHours == 3
\* longest daily.time array the service sends
MaxDays == 7
\* the weather codes the service sends lie in -MaxCode..MaxCode
MaxCode == 101

(* ------------------------------- state ------------------------------- *)
VARIABLES
    city_edit,       \* text of the city line edit
    unit_box,        \* current item of the unit box: "F" or "C"
    fav_box,         \* favorites box: its items and its current text
    prefs,           \* self.prefs
    disk,            \* prefs.json: <<>> when there is no file, else <<document>>
    fetch_btn,       \* fetch button enabled
    auto_timer,      \* auto_timer.isActive()
    timer_starts,    \* calls of auto_timer.start() so far
    inflight,        \* bag of the requests handed to the network manager and
                     \* not yet replied
    resolved_place,  \* self._resolved_place
    view,            \* what the hero, the hourly table and the daily strip show
    dialogs,         \* open modal message boxes, innermost last
    runs,            \* requests accepted by fetch() so far
    weather          \* the forecast the service answers with

vars == <<city_edit, unit_box, fav_box, prefs, disk, fetch_btn, auto_timer,
          timer_starts, inflight, resolved_place, view, dialogs, runs, weather>>

(* ------------------------------- text -------------------------------- *)
\* Text is a sequence of one-character strings.
SP == " "
NameA == <<"a">>
\* what the user can type into the city line edit
CityTexts == { <<SP>>, NameA, <<SP, "b", SP>> }

RECURSIVE LStrip(_)
LStrip(s) == IF s # <<>> /\ Head(s) = SP THEN LStrip(Tail(s)) ELSE s

RECURSIVE RStrip(_)
RStrip(s) == IF s # <<>> /\ s[Len(s)] = SP THEN RStrip(SubSeq(s, 1, Len(s) - 1)) ELSE s

\* str.strip()
Strip(s) == RStrip(LStrip(s))

\* x in list
InSeq(x, s) == \E i \in 1..Len(s) : s[i] = x

\* list.remove(x): drops the first occurrence
RECURSIVE RemoveFirst(_, _)
RemoveFirst(s, x) ==
    IF s = <<>> THEN <<>>
    ELSE IF Head(s) = x THEN Tail(s)
    ELSE <<Head(s)>> \o RemoveFirst(Tail(s), x)

\* ", ".join(parts)
RECURSIVE Join(_)
Join(parts) ==
    IF parts = <<>> THEN ""
    ELSE IF Len(parts) = 1 THEN parts[1]
    ELSE parts[1] \o ", " \o Join(Tail(parts))

\* [p for p in parts if p]
RECURSIVE NonEmpty(_)
NonEmpty(parts) ==
    IF parts = <<>> THEN <<>>
    ELSE IF Head(parts) = "" THEN NonEmpty(Tail(parts))
    ELSE <<Head(parts)>> \o NonEmpty(Tail(parts))

(* --------------------------- JSON values ----------------------------- *)
\* A JSON number, a JSON null, or a key that the object does not have.
Num(n) == [t |-> "num", v |-> n]
Null == [t |-> "null", v |-> 0]
Absent == [t |-> "absent", v |-> 0]
\* An ISO timestamp of day d, hour h; or a string that is no ISO timestamp.
Ts(d, h) == [t |-> "ts", d |-> d, h |-> h]
BadTs == [t |-> "bad", d |-> 0, h |-> 0]


(* ----------------------- weather code helpers ------------------------ *)
\* _condition_from_code with the drizzle / rain boundary one code higher
ConditionFromCodeShifted(code) ==
    IF code = 0 THEN "clear"
    ELSE IF code \in {1, 2, 3} THEN "clouds"
    ELSE IF code \in {45, 48} THEN "fog"
    ELSE IF 51 <= code /\ code <= 67 THEN (IF code < 62 THEN "drizzle" ELSE "rain")
    ELSE IF 71 <= code /\ code <= 77 THEN "snow"
    ELSE IF 80 <= code /\ code <= 82 THEN "showers"
    ELSE IF 95 <= code /\ code <= 99 THEN "storm"
    ELSE "default"

\* _condition_from_code
ConditionFromCode(code) ==
    IF code = 0 THEN "clear"
    ELSE IF code \in {1, 2, 3} THEN "clouds"
    ELSE IF code \in {45, 48} THEN "fog"
    ELSE IF 51 <= code /\ code <= 67 THEN (IF code < 61 THEN "drizzle" ELSE "rain")
    ELSE IF 71 <= code /\ code <= 77 THEN "snow"
    ELSE IF 80 <= code /\ code <= 82 THEN "showers"
    ELSE IF 95 <= code /\ code <= 99 THEN "storm"
    ELSE "default"

\* _emoji_from_code (glyphs named by what they depict)
EmojiFromCode(code) ==
    IF code = 0 THEN "sun"
    ELSE IF code \in {1, 2, 3} THEN "sun behind cloud"
    ELSE IF code \in {45, 48} THEN "fog"
    ELSE IF 51 <= code /\ code <= 67
         THEN (IF code < 61 THEN "sun behind rain cloud" ELSE "cloud with rain")
    ELSE IF 71 <= code /\ code <= 77 THEN "cloud with snow"
    ELSE IF 80 <= code /\ code <= 82 THEN "cloud with rain"
    ELSE IF 95 <= code /\ code <= 99 THEN "cloud with lightning and rain"
    ELSE "sun behind small cloud"

(* --------------------------- the forecast ---------------------------- *)
\* date.today(), as a day number
Today == 1

\* dt.strftime("%I:%M %p").lstrip("0") for a timestamp on the hour
TimeText(h) ==
    LET h12 == IF h % 12 = 0 THEN 12 ELSE h % 12
        padded == <<ToString(h12 \div 10), ToString(h12 % 10)>>
        hh == IF padded[1] = "0" THEN padded[2] ELSE padded[1] \o padded[2]
    IN  hh \o ":00 " \o (IF h < 12 THEN "AM" ELSE "PM")

\* strftime("%a"); day 0 is a Monday
WeekdayText(d) == <<"Mon", "Tue", "Wed", "Thu", "Fri", "Sat", "Sun">>[(d % 7) + 1]

\* strftime("%A")
WeekdayName(d) ==
    <<"Monday", "Tuesday", "Wednesday", "Thursday", "Friday", "Saturday",
      "Sunday">>[(d % 7) + 1]

\* dict.get(key, 0): only a key the object lacks takes the default
GetOr0(x) == IF x.t = "absent" THEN Num(0) ELSE x

\* the same with the length test off by one: the last value reads as 0.0
FloatAtShort(a, i) == IF i < Len(a) THEN a[i].v ELSE 0

\* float(a[i]) if i < len(a) else 0.0   (i counts from 1 here)
FloatAt(a, i) == IF i <= Len(a) THEN a[i].v ELSE 0
\* ... which raises TypeError on a null
FloatAtRaises(a, i) == i <= Len(a) /\ a[i].t # "num"
\* float(a[i] or 0.0) if i < len(a) else 0.0: a null counts as 0
FloatOr0At(a, i) == IF i <= Len(a) /\ a[i].t = "num" THEN a[i].v ELSE 0

\* the loop without its test of the date: every parseable timestamp is kept
KeptAnyDate(hourly, i) == hourly.time[i].t = "ts"

\* the indices of hourly.time the loop keeps: parseable and dated today
Kept(hourly, i) == hourly.time[i].t = "ts" /\ hourly.time[i].d = Today

RECURSIVE HourlyFrom(_, _)
HourlyFrom(hourly, i) ==
    IF i > Len(hourly.time) THEN <<>>
    ELSE IF ~Kept(hourly, i) THEN HourlyFrom(hourly, i + 1)
    ELSE << [time |-> TimeText(hourly.time[i].h),
             temp |-> FloatAt(hourly.temperature_2m, i),
             precip |-> FloatOr0At(hourly.precipitation_probability, i),
             wind |-> FloatAt(hourly.windspeed_10m, i)] >>
         \o HourlyFrom(hourly, i + 1)

\* rows, as built by the hourly loop
HourlyRows(hourly) == HourlyFrom(hourly, 1)

RECURSIVE SparkFrom(_, _)
SparkFrom(hourly, i) ==
    IF i > Len(hourly.time) THEN <<>>
    ELSE IF ~Kept(hourly, i) \/ i > Len(hourly.temperature_2m)
         THEN SparkFrom(hourly, i + 1)
    ELSE <<hourly.temperature_2m[i].v>> \o SparkFrom(hourly, i + 1)

\* spark_vals, as built by the hourly loop
SparkVals(hourly) == SparkFrom(hourly, 1)

\* the argument of spark.set_points
SparkPoints(hourly) ==
    LET rows == HourlyRows(hourly)
    IN  IF rows # <<>> THEN [i \in 1..Len(rows) |-> rows[i].temp]
        ELSE SparkVals(hourly)

\* the hourly loop raises at the first kept row with a null temperature or wind
HourlyRaises(hourly) ==
    \E i \in 1..Len(hourly.time) :
        /\ Kept(hourly, i)
        /\ \/ FloatAtRaises(hourly.temperature_2m, i)
           \/ FloatAtRaises(hourly.windspeed_10m, i)

Min(a, b) == IF a < b THEN a ELSE b

\* rows_daily: the first five daily entries
DailyRows(daily) ==
    [i \in 1..Min(5, Len(daily.time)) |->
        [date |-> WeekdayText(daily.time[i].d),
         max |-> FloatAt(daily.temperature_2m_max, i),
         min |-> FloatAt(daily.temperature_2m_min, i),
         code |-> FloatAt(daily.weathercode, i)]]

\* the daily loop raises on a date that is no ISO date and on a null value
DailyRaises(daily) ==
    \E i \in 1..Min(5, Len(daily.time)) :
        \/ daily.time[i].t # "ts"
        \/ FloatAtRaises(daily.temperature_2m_max, i)
        \/ FloatAtRaises(daily.temperature_2m_min, i)
        \/ FloatAtRaises(daily.weathercode, i)

\* _fill_daily_strip without its clearing loop: the cards are added after
\* those the strip already shows
FillDailyStripKeepOld(rows_daily) ==
    view.daily \o [i \in 1..Len(rows_daily) |->
                      [date |-> rows_daily[i].date,
                       glyph |-> EmojiFromCode(rows_daily[i].code),
                       max |-> rows_daily[i].max,
                       min |-> rows_daily[i].min]]

\* _fill_daily_strip: the old cards are taken out, one card per row is added
FillDailyStrip(rows_daily) ==
    [i \in 1..Len(rows_daily) |->
        [date |-> rows_daily[i].date,
         glyph |-> EmojiFromCode(rows_daily[i].code),
         max |-> rows_daily[i].max,
         min |-> rows_daily[i].min]]

(* ------------------------------ replies ------------------------------ *)
\* A reply body either fails json.loads (a transport failure leaves the body
\* empty) or parses to the object in json.
GeoBodies == {"error", "no results key", "empty results", "no coordinates", "match"}
ForecastBodies == {"error", "forecast", "bad daily date", "null hourly temperature"}

\* the first geocode match for a name
Place(name) ==
    IF name = NameA
    THEN [has_coords |-> TRUE, latitude |-> 26, longitude |-> -81,
          name |-> "Fort Myers", admin1 |-> "Florida", country |-> "United States"]
    ELSE [has_coords |-> TRUE, latitude |-> 48, longitude |-> 2,
          name |-> "Paris", admin1 |-> "", country |-> "France"]

\* {} as a geocode object
EmptyGeo == [has_results |-> FALSE, results |-> <<>>]

GeoReply(body, name) ==
    CASE body = "error" -> [parses |-> FALSE, json |-> EmptyGeo]
      [] body = "no results key" -> [parses |-> TRUE, json |-> EmptyGeo]
      [] body = "empty results" ->
            [parses |-> TRUE, json |-> [has_results |-> TRUE, results |-> <<>>]]
      [] body = "no coordinates" ->
            [parses |-> TRUE,
             json |-> [has_results |-> TRUE,
                       results |-> <<[Place(name) EXCEPT !.has_coords = FALSE]>>]]
      [] OTHER ->
            [parses |-> TRUE,
             json |-> [has_results |-> TRUE, results |-> <<Place(name)>>]]

\* {} as a forecast object
EmptyCurrent == [temperature |-> Absent, windspeed |-> Absent, weathercode |-> Absent]
EmptyHourly == [time |-> <<>>, temperature_2m |-> <<>>,
                precipitation_probability |-> <<>>, windspeed_10m |-> <<>>]
EmptyDaily == [time |-> <<>>, temperature_2m_max |-> <<>>,
               temperature_2m_min |-> <<>>, weathercode |-> <<>>]
EmptyForecast == [current_weather |-> EmptyCurrent, hourly |-> EmptyHourly,
                  daily |-> EmptyDaily]

\* a forecast as the service sends it on the day of the run: yesterday's
\* last hour and one hour of today, today and tomorrow; the value arrays
\* shorter than the times, a null where the service has no value
GoodForecast ==
    [current_weather |->
        [temperature |-> Num(89), windspeed |-> Num(8), weathercode |-> Num(1)],
     hourly |->
        [time |-> <<Ts(Today - 1, 23), Ts(Today, 13)>>,
         temperature_2m |-> <<Num(70), Num(88)>>,
         precipitation_probability |-> <<Num(10), Null>>,
         windspeed_10m |-> <<Num(5)>>],
     daily |->
        [time |-> <<Ts(Today, 0), Ts(Today + 1, 0)>>,
         temperature_2m_max |-> <<Num(90), Num(91)>>,
         temperature_2m_min |-> <<Num(70)>>,
         weathercode |-> <<Num(61)>>]]

(* --------------------- forecasts the service sends ------------------- *)
\* all sequences over S of length at most n
SeqsUpTo(S, n) == UNION {[1..k -> S] : k \in 0..n}

\* what an entry of hourly.time can be
HourKinds == {"today", "other day", "no timestamp"}

\* hourly.time: entry i is hour i of today, hour i of tomorrow, or a string
\* that is no ISO timestamp
HourlyTime(kinds) ==
    [i \in 1..Len(kinds) |->
        IF kinds[i] = "today" THEN Ts(Today, i)
        ELSE IF kinds[i] = "other day" THEN Ts(Today + 1, i)
        ELSE BadTs]

\* the hourly value arrays, cut to n entries; the service sends a null for a
\* precipitation probability it does not have
HourlyTemps(n) == [i \in 1..n |-> Num(60 + i)]
HourlyPrecs(n) == [i \in 1..n |-> IF i = 2 THEN Null ELSE Num(10 * i)]
HourlyWinds(n) == [i \in 1..n |-> Num(i)]

\* forecasts that differ in their hourly part: any timestamps, value arrays
\* of any lengths
HourlyWeathers ==
    {[GoodForecast EXCEPT !.hourly =
          [time |-> HourlyTime(kinds),
           temperature_2m |-> HourlyTemps(nt),
           precipitation_probability |-> HourlyPrecs(np),
           windspeed_10m |-> HourlyWinds(nw)]] :
        kinds \in SeqsUpTo(HourKinds, MaxHours),
        nt \in 0..MaxHours, np \in 0..MaxHours, nw \in 0..MaxHours}

\* daily.time: n dates from today on, the one at index bad (if any) no ISO date
DailyTime(n, bad) ==
    [i \in 1..n |-> IF i = bad THEN BadTs ELSE Ts(Today + i - 1, 0)]

\* the daily value arrays, cut to n entries
DailyMax(n) == [i \in 1..n |-> Num(80 + i)]
DailyMin(n) == [i \in 1..n |-> Num(50 + i)]
DailyCodes(n) ==
    [i \in 1..n |-> Num(<<0, 2, 45, 55, 61, 73, 80, 96, 100>>[((i - 1) % 9) + 1])]

\* forecasts that differ in their daily part: any number of dates, value
\* arrays of any lengths
DailyWeathers ==
    {[GoodForecast EXCEPT !.daily =
          [time |-> DailyTime(n, bad),
           temperature_2m_max |-> DailyMax(nmax),
           temperature_2m_min |-> DailyMin(nmin),
           weathercode |-> DailyCodes(ncode)]] :
        n \in 0..MaxDays, bad \in {0, 2, 6},
        nmax \in 0..MaxDays, nmin \in 0..MaxDays, ncode \in 0..MaxDays}

\* the weather codes the service can send
Codes == (0 - MaxCode)..MaxCode

\* forecasts that differ in the current weather code
CodeWeathers ==
    {[GoodForecast EXCEPT !.current_weather.weathercode = Num(c)] : c \in Codes}

Weathers == HourlyWeathers \cup DailyWeathers \cup CodeWeathers

ForecastReply(body) ==
    CASE body = "error" -> [parses |-> FALSE, json |-> EmptyForecast]
      [] body = "bad daily date" ->
            [parses |-> TRUE,
             json |-> [GoodForecast EXCEPT !.daily.time[2] = BadTs]]
      [] body = "null hourly temperature" ->
            [parses |-> TRUE,
             json |-> [GoodForecast EXCEPT !.hourly.temperature_2m[2] = Null]]
      [] OTHER -> [parses |-> TRUE, json |-> weather]

\* the defaults of __init__
DefaultPrefs == [favorites |-> <<>>, last_city |-> <<>>, unit |-> "F"]

\* _load_prefs: the stored document over the defaults
LoadPrefs(d) == IF d = <<>> THEN DefaultPrefs ELSE d[1]

InitialView ==
    [header |-> [temp |-> 0, unit |-> "", cond |-> ""],
     subheader |-> [wind |-> 0, unit |-> "", day |-> ""],
     icon |-> "sun behind small cloud",
     label |-> "",
     rows |-> <<>>,
     spark |-> <<>>,
     daily |-> <<>>,
     theme |-> "default"]

\* the widget after __init__, started without a prefs.json
Constructed ==
    /\ disk = <<>>
    /\ prefs = LoadPrefs(disk)
    /\ city_edit = prefs.last_city
    /\ unit_box = prefs.unit
    /\ fav_box = [items |-> prefs.favorites, current |-> <<>>]
    /\ fetch_btn = TRUE
    /\ auto_timer = FALSE
    /\ timer_starts = 0
    /\ inflight = EmptyBag
    /\ resolved_place = ""
    /\ view = InitialView
    /\ dialogs = <<>>
    /\ runs = 0

Init ==
    /\ Constructed
    /\ weather = GoodForecast

(* ------------------------------ actions ------------------------------ *)
\* _save_prefs: the whole document is rewritten
SavePrefs(p) == disk' = <<p>>

\* _refresh_favorites: the box is cleared and refilled with its signals
\* blocked; a box with a placeholder text has no current item afterwards
RefreshFavorites(p) == fav_box' = [items |-> p.favorites, current |-> <<>>]

\* QMessageBox.information / QMessageBox.warning: a modal box opens and the
\* caller waits in a nested event loop until it is dismissed
OpenDialog(title) ==
    /\ Len(dialogs) < MaxDialogs
    /\ dialogs' = Append(dialogs, title)

\* the guard of the unit box's and the timer's lambdas: text().strip() is empty
Blank(text) == Strip(text) = <<>>

\* QNetworkRequest for the geocode URL, tagged kind = "geocode"
GeocodeRequest(name) ==
    [kind |-> "geocode", name |-> name, latitude |-> 0, longitude |-> 0,
     tunit |-> "", wunit |-> "", place |-> ""]

\* QNetworkRequest for the forecast URL, tagged kind = "forecast"; name and
\* place record the geocode request r and the match it came from
ForecastRequest(r, r0, tunit, wunit, place) ==
    [kind |-> "forecast", name |-> r.name,
     latitude |-> r0.latitude, longitude |-> r0.longitude,
     tunit |-> tunit, wunit |-> wunit, place |-> place]

\* fetch() without its check of the name
FetchUnvalidated(text, unit) ==
    /\ runs < MaxRuns
    /\ fetch_btn' = FALSE
    /\ prefs' = [prefs EXCEPT !.unit = unit]
    /\ SavePrefs(prefs')
    /\ runs' = runs + 1
    /\ inflight' = inflight (+) SetToBag({GeocodeRequest(Strip(text))})
    /\ UNCHANGED <<auto_timer, timer_starts, resolved_place, view, dialogs>>

\* fetch() sending its geocode request a second time
FetchTwice(text, unit) ==
    IF Strip(text) = <<>>
    THEN /\ OpenDialog("Missing")
         /\ UNCHANGED <<prefs, disk, fetch_btn, auto_timer, timer_starts, inflight,
                        resolved_place, view, runs>>
    ELSE /\ runs < MaxRuns
         /\ fetch_btn' = FALSE
         /\ prefs' = [prefs EXCEPT !.unit = unit]
         /\ SavePrefs(prefs')
         /\ runs' = runs + 1
         /\ inflight' = inflight (+) SetToBag({GeocodeRequest(Strip(text))})
                                 (+) SetToBag({GeocodeRequest(Strip(text))})
         /\ UNCHANGED <<auto_timer, timer_starts, resolved_place, view, dialogs>>

\* fetch(), called with the line edit holding text and the unit box at unit
Fetch(text, unit) ==
    IF Strip(text) = <<>>
    THEN /\ OpenDialog("Missing")
         /\ UNCHANGED <<prefs, disk, fetch_btn, auto_timer, timer_starts, inflight,
                        resolved_place, view, runs>>
    ELSE /\ runs < MaxRuns
         /\ fetch_btn' = FALSE
         /\ prefs' = [prefs EXCEPT !.unit = unit]
         /\ SavePrefs(prefs')
         /\ runs' = runs + 1
         /\ inflight' = inflight (+) SetToBag({GeocodeRequest(Strip(text))})
         /\ UNCHANGED <<auto_timer, timer_starts, resolved_place, view, dialogs>>

\* the user edits the city line edit
EditCity(text) ==
    /\ dialogs = <<>>
    /\ text # city_edit
    /\ city_edit' = text
    /\ UNCHANGED <<unit_box, fav_box, prefs, disk, fetch_btn, auto_timer,
                   timer_starts, inflight, resolved_place, view, dialogs, runs,
                   weather>>

\* fetch_btn.clicked
FetchClick ==
    /\ dialogs = <<>>
    /\ fetch_btn
    /\ Fetch(city_edit, unit_box)
    /\ UNCHANGED <<city_edit, unit_box, fav_box, weather>>

\* unit_box.currentIndexChanged: the user picks the other unit
UnitChanged ==
    /\ dialogs = <<>>
    /\ unit_box' = IF unit_box = "F" THEN "C" ELSE "F"
    /\ IF ~Blank(city_edit)
       THEN Fetch(city_edit, unit_box')
       ELSE UNCHANGED <<prefs, disk, fetch_btn, auto_timer, timer_starts, inflight,
                        resolved_place, view, dialogs, runs>>
    /\ UNCHANGED <<city_edit, fav_box, weather>>

\* auto_timer.timeout; with a blank line edit the tick does nothing
TimerTick ==
    /\ auto_timer
    /\ ~Blank(city_edit)
    /\ Fetch(city_edit, unit_box)
    /\ UNCHANGED <<city_edit, unit_box, fav_box, weather>>

\* _fav_selected, from fav_box.currentTextChanged; an empty name returns at once
FavSelected(name) ==
    /\ dialogs = <<>>
    /\ InSeq(name, fav_box.items)
    /\ name # fav_box.current
    /\ name # <<>>
    /\ fav_box' = [fav_box EXCEPT !.current = name]
    /\ city_edit' = name
    /\ Fetch(name, unit_box)
    /\ UNCHANGED <<unit_box, weather>>

\* _fav_add without its tests of the name: blank names and names already in
\* the list are appended too
FavAddUntested ==
    /\ dialogs = <<>>
    /\ LET c == Strip(city_edit)
       IN  /\ prefs' = [prefs EXCEPT !.favorites = Append(@, c)]
           /\ SavePrefs(prefs')
           /\ RefreshFavorites(prefs')
    /\ UNCHANGED <<city_edit, unit_box, fetch_btn, auto_timer, timer_starts, inflight,
                   resolved_place, view, dialogs, runs, weather>>

\* _fav_add; with a blank city or one already in the list it returns at once
FavAdd ==
    /\ dialogs = <<>>
    /\ LET c == Strip(city_edit)
       IN  /\ c # <<>>
           /\ ~InSeq(c, prefs.favorites)
           /\ prefs' = [prefs EXCEPT !.favorites = Append(@, c)]
           /\ SavePrefs(prefs')
           /\ RefreshFavorites(prefs')
    /\ UNCHANGED <<city_edit, unit_box, fetch_btn, auto_timer, timer_starts, inflight,
                   resolved_place, view, dialogs, runs, weather>>

\* _fav_remove; with no current item or one not in the list it returns at once
FavRemove ==
    /\ dialogs = <<>>
    /\ LET c == Strip(fav_box.current)
       IN  /\ c # <<>>
           /\ InSeq(c, prefs.favorites)
           /\ prefs' = [prefs EXCEPT !.favorites = RemoveFirst(@, c)]
           /\ SavePrefs(prefs')
           /\ RefreshFavorites(prefs')
    /\ UNCHANGED <<city_edit, unit_box, fetch_btn, auto_timer, timer_starts, inflight,
                   resolved_place, view, dialogs, runs, weather>>

\* the display name of a geocode match: its non-empty parts, comma-separated
DisplayName(r0) == Join(NonEmpty(<<r0.name, r0.admin1, r0.country>>))

\* _handle_geocode without its early return: an empty results list goes on to
\* a forecast request for the coordinates (0, 0)
HandleGeocodeNoReturn(r, payload) ==
    LET results == payload.results
        r0 == IF results = <<>>
              THEN [has_coords |-> TRUE, latitude |-> 0, longitude |-> 0,
                    name |-> "", admin1 |-> "", country |-> ""]
              ELSE results[1]
        tunit == IF prefs.unit = "F" THEN "fahrenheit" ELSE "celsius"
        wunit == IF tunit = "fahrenheit" THEN "mph" ELSE "kmh"
    IN  IF ~r0.has_coords
        THEN /\ inflight' = inflight (-) SetToBag({r})
             /\ UNCHANGED <<resolved_place, dialogs>>
        ELSE /\ resolved_place' = Join(NonEmpty(<<r0.name, r0.admin1,
                                                  r0.country>>))
             /\ inflight' = (inflight (-) SetToBag({r}))
                    (+) SetToBag({ForecastRequest(r, r0, tunit, wunit,
                                                  resolved_place')})
             /\ UNCHANGED dialogs

\* _handle_geocode, for the reply of request r
HandleGeocode(r, payload) ==
    LET results == payload.results
        r0 == results[1]
        tunit == IF prefs.unit = "F" THEN "fahrenheit" ELSE "celsius"
        wunit == IF tunit = "fahrenheit" THEN "mph" ELSE "kmh"
    IN  IF results = <<>>
        THEN \* "City not found."; the button is enabled once the box is closed
             /\ OpenDialog("Not found")
             /\ inflight' = inflight (-) SetToBag({r})
             /\ UNCHANGED resolved_place
        ELSE IF ~r0.has_coords
        THEN \* r0["latitude"] raises KeyError: the slot ends here
             /\ inflight' = inflight (-) SetToBag({r})
             /\ UNCHANGED <<resolved_place, dialogs>>
        ELSE /\ resolved_place' = DisplayName(r0)
             /\ inflight' = (inflight (-) SetToBag({r}))
                    (+) SetToBag({ForecastRequest(r, r0, tunit, wunit,
                                                  resolved_place')})
             /\ UNCHANGED dialogs

\* auto_timer.start() without the isActive() test: a running timer restarts
StartAutoRefreshAlways ==
    /\ auto_timer' = TRUE
    /\ timer_starts' = timer_starts + 1

\* "start auto refresh after first good fetch"
StartAutoRefresh ==
    IF ~auto_timer
    THEN auto_timer' = TRUE /\ timer_starts' = timer_starts + 1
    ELSE UNCHANGED <<auto_timer, timer_starts>>

\* "remember last city"
RememberLastCity ==
    /\ prefs' = [prefs EXCEPT !.last_city = Strip(city_edit)]
    /\ SavePrefs(prefs')

\* _handle_forecast, for the reply of request r.  An exception ends the slot
\* where it is raised: what was written before it stays written.
HandleForecast(r, payload) ==
    LET current == payload.current_weather
        hourly == payload.hourly
        daily == payload.daily
        temp == GetOr0(current.temperature)
        wind == GetOr0(current.windspeed)
        code == GetOr0(current.weathercode)
        cond == ConditionFromCode(code.v)
        unit_letter == prefs.unit
        v1 == [view EXCEPT !.header = [temp |-> temp.v, unit |-> unit_letter,
                                       cond |-> cond]]
        v2 == [v1 EXCEPT !.subheader = [wind |-> wind.v,
                                        unit |-> IF unit_letter = "F" THEN "mph"
                                                 ELSE "km/h",
                                        day |-> WeekdayName(Today)],
                         !.icon = EmojiFromCode(code.v),
                         !.label = resolved_place]
        v3 == [v2 EXCEPT !.rows = HourlyRows(hourly), !.spark = SparkPoints(hourly)]
        v4 == [v3 EXCEPT !.daily = FillDailyStrip(DailyRows(daily)), !.theme = cond]
    IN  /\ inflight' = inflight (-) SetToBag({r})
        /\ IF code.t # "num" \/ temp.t # "num"
           THEN \* int(None), or None formatted with .0f, before anything is set
                UNCHANGED <<view, fetch_btn, auto_timer, timer_starts, prefs, disk>>
           ELSE IF wind.t # "num"
           THEN /\ view' = v1
                /\ UNCHANGED <<fetch_btn, auto_timer, timer_starts, prefs, disk>>
           ELSE IF HourlyRaises(hourly)
           THEN /\ view' = v2
                /\ UNCHANGED <<fetch_btn, auto_timer, timer_starts, prefs, disk>>
           ELSE IF DailyRaises(daily)
           THEN /\ view' = v3
                /\ UNCHANGED <<fetch_btn, auto_timer, timer_starts, prefs, disk>>
           ELSE /\ view' = v4
                /\ fetch_btn' = TRUE
                /\ StartAutoRefresh
                /\ RememberLastCity

\* _on_reply: the network manager's finished signal for request r, whose reply
\* carries body.  A body json.loads rejects is handled as the empty object.
OnReply(r, body) ==
    /\ BagIn(r, inflight)
    /\ IF r.kind = "geocode"
       THEN /\ body \in GeoBodies
            /\ LET reply == GeoReply(body, r.name)
               IN  HandleGeocode(r, IF reply.parses THEN reply.json ELSE EmptyGeo)
            /\ UNCHANGED <<view, fetch_btn, auto_timer, timer_starts, prefs, disk>>
       ELSE /\ body \in ForecastBodies
            /\ LET reply == ForecastReply(body)
               IN  HandleForecast(r, IF reply.parses THEN reply.json
                                     ELSE EmptyForecast)
            /\ UNCHANGED <<resolved_place, dialogs>>
    /\ UNCHANGED <<city_edit, unit_box, fav_box, runs, weather>>

\* closing the box without the slot's last statement, setEnabled(True)
DismissDialogOnly ==
    /\ dialogs # <<>>
    /\ dialogs' = SubSeq(dialogs, 1, Len(dialogs) - 1)
    /\ UNCHANGED <<city_edit, unit_box, fav_box, prefs, disk, fetch_btn, auto_timer,
                   timer_starts, inflight, resolved_place, view, runs, weather>>

\* the user closes the innermost message box; the slot that opened it goes on
DismissDialog ==
    /\ dialogs # <<>>
    /\ dialogs' = SubSeq(dialogs, 1, Len(dialogs) - 1)
    /\ IF dialogs[Len(dialogs)] = "Not found"
       THEN fetch_btn' = TRUE
       ELSE UNCHANGED fetch_btn
    /\ UNCHANGED <<city_edit, unit_box, fav_box, prefs, disk, auto_timer,
                   timer_starts, inflight, resolved_place, view, runs, weather>>

\* the event loop delivers the reply of some request in flight
Reply ==
    \E r \in BagToSet(inflight) :
        \E body \in GeoBodies \cup ForecastBodies : OnReply(r, body)

\* the user picks an item of the favorites box
FavPick == \E i \in 1..Len(fav_box.items) : FavSelected(fav_box.items[i])

\* the user adds a favorite while the list is short of MaxFavorites
FavAddWithinBound ==
    /\ Len(prefs.favorites) < MaxFavorites
    /\ FavAdd

Next ==
    \/ TimerTick
    \/ Reply
    \/ DismissDialog
    \/ \E text \in CityTexts : EditCity(text)
    \/ FetchClick
    \/ UnitChanged
    \/ FavPick
    \/ FavAddWithinBound
    \/ FavRemove

Spec == Init /\ [][Next]_vars

\* the reply of a geocode request in flight arrives with a match
GeocodeMatched ==
    \E r \in BagToSet(inflight) : r.kind = "geocode" /\ OnReply(r, "match")

\* the reply of a forecast request in flight arrives with the forecast
ForecastArrived ==
    \E r \in BagToSet(inflight) : r.kind = "forecast" /\ OnReply(r, "forecast")

\* The forecast handler at work on every forecast the service can send: the
\* user types a city and fetches it, again when the last run is through, and
\* every reply arrives well-formed.
TransformInit ==
    /\ Constructed
    /\ weather \in Weathers

TransformNext ==
    \/ EditCity(NameA)
    \/ FetchClick
    \/ DismissDialog
    \/ GeocodeMatched
    \/ ForecastArrived

TransformSpec == TransformInit /\ [][TransformNext]_vars

\* The favorites at work: the user types names, fetches, adds and removes
\* favorites and picks them from the box, and leaves the unit box alone; the
\* list is as long as the user makes it.
FavNext ==
    \/ TimerTick
    \/ Reply
    \/ DismissDialog
    \/ \E text \in CityTexts : EditCity(text)
    \/ FetchClick
    \/ FavPick
    \/ FavAdd
    \/ FavRemove

FavSpec == Init /\ [][FavNext]_vars

(* ------------------------------ claims ------------------------------- *)
\* a step in which _on_reply handles a geocode / forecast reply carrying body
GeocodeReplied(body) ==
    \E r \in BagToSet(inflight) : r.kind = "geocode" /\ OnReply(r, body)
ForecastReplied(body) ==
    \E r \in BagToSet(inflight) : r.kind = "forecast" /\ OnReply(r, body)

\* the forecast requests a step adds to the requests in flight
NewForecasts ==
    {q \in BagToSet(inflight') :
        q.kind = "forecast" /\ CopiesIn(q, inflight') > CopiesIn(q, inflight)}

TopDialog == IF dialogs = <<>> THEN "" ELSE dialogs[Len(dialogs)]

\* C1: handling a forecast reply that failed in transport or does not parse
\* displays no new view, leaves last_city and the stored preferences alone
\* and does not start the auto-refresh timer.
C1_FailedForecastChangesNothing ==
    [][ForecastReplied("error") =>
          /\ view' = view
          /\ prefs' = prefs
          /\ disk' = disk
          /\ auto_timer' = auto_timer]_vars

\* C2: a forecast request is issued only by the step that handles a geocode
\* reply with a match: that step takes the run's geocode request out of the
\* requests in flight and puts one forecast request for the same run in, so
\* a run's forecast request never precedes the end of its geocode lookup and
\* the forecast requests issued never outnumber the geocode replies with a
\* non-empty results list handled.
C2_ForecastOnlyAfterGeocode ==
    [][NewForecasts # {} =>
          \E r \in BagToSet(inflight) :
             /\ r.kind = "geocode"
             /\ OnReply(r, "match")
             /\ CopiesIn(r, inflight') = CopiesIn(r, inflight) - 1
             /\ BagCardinality(inflight') = BagCardinality(inflight)
             /\ \E q \in NewForecasts :
                   /\ NewForecasts = {q}
                   /\ q.name = r.name
                   /\ q.place = DisplayName(Place(r.name))
                   /\ CopiesIn(q, inflight') = CopiesIn(q, inflight) + 1]_vars

\* C2 witness: both runs are past their geocode lookup, the forecast requests
\* of both are in flight.
C2_Witness ==
    /\ runs = 2
    /\ BagCardinality(inflight) = 2
    /\ \A q \in BagToSet(inflight) : q.kind = "forecast"

\* C3: a click on Fetch with a city that is blank after trimming only opens
\* the "Missing" box: no request is issued, the button stays enabled and the
\* preferences are neither changed nor saved; no geocode request in flight
\* ever names a blank city.
C3_BlankCityRejected ==
    [][/\ (FetchClick /\ Strip(city_edit) = <<>>) =>
             /\ dialogs' = Append(dialogs, "Missing")
             /\ inflight' = inflight
             /\ runs' = runs
             /\ fetch_btn' = fetch_btn
             /\ prefs' = prefs
             /\ disk' = disk
       /\ \A q \in BagToSet(inflight') :
             q.kind = "geocode" => q.name # <<>> /\ q.name = Strip(q.name)]_vars

\* C3 witness: the "Missing" box is open over a blank city, nothing was sent.
C3_Witness ==
    /\ TopDialog = "Missing"
    /\ Strip(city_edit) = <<>>
    /\ city_edit # <<>>
    /\ runs = 0
    /\ fetch_btn

\* C4: handling a geocode reply whose results list is empty or missing opens
\* "Not found", issues no forecast request and leaves the view, last_city and
\* the stored preferences as they were; when the box is closed the Fetch
\* button is enabled.
C4_NotFoundEndsRun ==
    [][/\ (GeocodeReplied("empty results") \/ GeocodeReplied("no results key")) =>
             /\ dialogs' = Append(dialogs, "Not found")
             /\ NewForecasts = {}
             /\ BagCardinality(inflight') = BagCardinality(inflight) - 1
             /\ view' = view
             /\ prefs' = prefs
             /\ disk' = disk
       /\ dialogs = Append(dialogs', "Not found") => fetch_btn']_vars

\* C4 witness: the only run ended on a geocode reply without results, its
\* box was closed: nothing in flight, nothing displayed, the button enabled.
C4_Witness ==
    /\ runs = 1
    /\ inflight = EmptyBag
    /\ resolved_place = ""
    /\ dialogs = <<>>
    /\ fetch_btn
    /\ view = InitialView
    /\ prefs.last_city = <<>>

\* C5: the location label written when a forecast reply is handled is the
\* display name of the place resolved by the run that reply belongs to.
C5_LabelFromSameRun ==
    [][\A r \in BagToSet(inflight) : \A body \in ForecastBodies :
          (r.kind = "forecast" /\ OnReply(r, body)) => view'.label = r.place]_vars

\* C6: when a run's forecast is displayed, the last_city stored and saved is
\* the city that was submitted for that run.
C6_LastCityIsSubmittedCity ==
    [][\A r \in BagToSet(inflight) :
          (r.kind = "forecast" /\ OnReply(r, "forecast")) =>
              /\ prefs'.last_city = r.name
              /\ disk' = <<prefs'>>]_vars

\* C7: the geocode request an auto-refresh tick issues names last_city.
C7_TickRefreshesLastCity ==
    [][TimerTick =>
          inflight' = inflight (+) SetToBag({GeocodeRequest(prefs.last_city)})]_vars

\* C8: once started, the auto-refresh timer stays active and is not started
\* again, whatever happens next.
C8_TimerNeverStopped ==
    [][auto_timer => (auto_timer' /\ timer_starts' = timer_starts)]_vars

\* C8 witness: the timer is running, started once, and a later run has ended
\* in an error box.
C8_Witness ==
    /\ auto_timer
    /\ timer_starts = 1
    /\ TopDialog = "Not found"
    /\ runs = 2

\* C9: a geocode reply that failed in transport or does not parse is not
\* presented as "Not found", the outcome of a reply with no results.
C9_GeocodeFailureIsNotNotFound ==
    [][GeocodeReplied("error") => dialogs' # Append(dialogs, "Not found")]_vars

\* C10: a reply that parses but lacks the structure the handlers read (a
\* match without coordinates, a daily date that is no ISO date, a null hourly
\* temperature) ends the run with the Fetch button enabled and the view as
\* it was before.
C10_MalformedReplyEndsRunCleanly ==
    [][(\/ GeocodeReplied("no coordinates")
        \/ ForecastReplied("bad daily date")
        \/ ForecastReplied("null hourly temperature")) =>
          /\ fetch_btn'
          /\ view' = view]_vars

\* C11: after every unit toggle, favorite add, favorite remove and displayed
\* forecast, prefs.json holds the preferences in memory and its unit is the
\* unit the unit box shows.
C11_PrefsSavedAfterEveryMutation ==
    [][(UnitChanged \/ FavAdd \/ FavRemove \/ ForecastReplied("forecast")) =>
          /\ disk' = <<prefs'>>
          /\ prefs'.unit = unit_box']_vars

\* a forecast handler has run to its end: the timer is started there and
\* nowhere else, and under TransformSpec the view then shows weather
Shown == auto_timer

\* the forecast reply of the last city fetched has been handled
Handled == resolved_place # "" /\ inflight = EmptyBag

\* the indices of an array whose entries satisfy Test, ascending
Indices(a, Test(_)) == SelectSeq([i \in 1..Len(a) |-> i], Test)

\* the entries of hourly.time that are timestamps of today
TodayIndices(hourly) ==
    Indices(hourly.time,
            LAMBDA i : hourly.time[i].t = "ts" /\ hourly.time[i].d = Today)

\* the entries of hourly.time that are timestamps and have a temperature
ParsedIndices(hourly) ==
    Indices(hourly.time,
            LAMBDA i : hourly.time[i].t = "ts" /\ i <= Len(hourly.temperature_2m))

\* the value at index i of a value array, 0 when the array ends before i or
\* holds a null there
ValueOr0(a, i) == IF i <= Len(a) /\ a[i].t = "num" THEN a[i].v ELSE 0

\* C12: the trend series shown is the temperatures of the hourly rows shown,
\* in row order; when no entry of hourly.time is dated today it is the
\* temperatures of all entries that parse as timestamps, whatever their date.
C12_TrendFallsBackToAllParsed ==
    Shown =>
        LET hourly == weather.hourly
            parsed == ParsedIndices(hourly)
        IN  IF TodayIndices(hourly) # <<>>
            THEN view.spark = [k \in 1..Len(view.rows) |-> view.rows[k].temp]
            ELSE view.spark = [k \in 1..Len(parsed) |->
                                  hourly.temperature_2m[parsed[k]].v]

\* C13: the hourly rows shown are exactly the entries of hourly.time that
\* parse as timestamps dated today, in the order of the array: as many rows
\* as such entries, row k made from the k-th of them; entries that do not
\* parse or are dated otherwise are left out and the handler goes on.
C13_HourlyRowsAreTodaysEntries ==
    Shown =>
        LET hourly == weather.hourly
            today == TodayIndices(hourly)
        IN  /\ Len(view.rows) = Len(today)
            /\ Len(view.rows) =
                  Cardinality({i \in 1..Len(hourly.time) :
                                 /\ hourly.time[i].t = "ts"
                                 /\ hourly.time[i].d = Today})
            /\ \A k \in 1..Len(today) :
                  view.rows[k].time = TimeText(hourly.time[today[k]].h)

\* C13 witness: of three entries the first is no timestamp, the second is
\* dated tomorrow and the third today; one row is shown, made from the third.
C13_Witness ==
    /\ Shown
    /\ weather.hourly.time = <<BadTs, Ts(Today + 1, 2), Ts(Today, 3)>>
    /\ Len(view.rows) = 1
    /\ view.rows[1].time = "3:00 AM"

\* C14: a value array that ends before an index the handler reads gives 0
\* for that field and the handler runs to its end; an array long enough
\* gives its value at that index.  This holds for temperature, precipitation
\* and wind of every hourly row shown and for maximum, minimum and code of
\* each of the first five days.
C14_ShortArraysReadAsZero ==
    (Handled /\ \A i \in 1..Min(5, Len(weather.daily.time)) :
                    weather.daily.time[i].t = "ts") =>
        LET hourly == weather.hourly
            daily == weather.daily
            today == TodayIndices(hourly)
        IN  /\ Shown
            /\ fetch_btn
            /\ Len(view.rows) = Len(today)
            /\ \A k \in 1..Len(today) :
                  /\ view.rows[k].temp = ValueOr0(hourly.temperature_2m, today[k])
                  /\ view.rows[k].precip =
                        ValueOr0(hourly.precipitation_probability, today[k])
                  /\ view.rows[k].wind = ValueOr0(hourly.windspeed_10m, today[k])
            /\ Len(view.daily) = Min(5, Len(daily.time))
            /\ \A i \in 1..Len(view.daily) :
                  /\ view.daily[i].max = ValueOr0(daily.temperature_2m_max, i)
                  /\ view.daily[i].min = ValueOr0(daily.temperature_2m_min, i)
                  /\ view.daily[i].glyph =
                        EmojiFromCode(ValueOr0(daily.weathercode, i))

\* C14 witness: the third hourly entry is dated today while the temperature
\* array has two values and the wind array none; its row is shown with
\* temperature 0 and wind 0 and the precipitation the array holds.
C14_Witness ==
    /\ Handled
    /\ fetch_btn
    /\ Len(weather.hourly.time) = 3
    /\ weather.hourly.time[3] = Ts(Today, 3)
    /\ Len(weather.hourly.temperature_2m) = 2
    /\ Len(weather.hourly.precipitation_probability) = 3
    /\ Len(weather.hourly.windspeed_10m) = 0
    /\ view.rows # <<>>
    /\ view.rows[Len(view.rows)] =
          [time |-> "3:00 AM", temp |-> 0, precip |-> 30, wind |-> 0]

\* C15: however many forecasts were shown before, the daily strip shows
\* min(5, n) cards for a forecast with n daily dates, card i made from the
\* i-th date and the i-th values; no card of an earlier forecast is left.
C15_DailyStripHoldsFirstFive ==
    Shown =>
        LET daily == weather.daily
        IN  /\ Len(view.daily) = Min(5, Len(daily.time))
            /\ Len(view.daily) <= 5
            /\ \A i \in 1..Len(view.daily) :
                  /\ i <= Len(daily.time)
                  /\ view.daily[i].date = WeekdayText(Today + i - 1)
                  /\ view.daily[i].max = ValueOr0(daily.temperature_2m_max, i)
                  /\ view.daily[i].min = ValueOr0(daily.temperature_2m_min, i)

\* C15 witness: a forecast with seven daily dates has been shown twice; the
\* strip holds five cards.
C15_Witness ==
    /\ Shown
    /\ runs = 2
    /\ inflight = EmptyBag
    /\ Len(weather.daily.time) = 7
    /\ Len(view.daily) = 5
    /\ view.daily[5].date = WeekdayText(Today + 4)

\* no name occurs twice in the list
NoDuplicates(favs) ==
    \A i, j \in 1..Len(favs) : i # j => favs[i] # favs[j]

\* the list with every occurrence of c taken out, the order of the rest kept
Without(favs, c) == SelectSeq(favs, LAMBDA x : x # c)

\* C16: the favorites are a set kept in insertion order.  The list never
\* holds a name twice nor an empty name; it changes only by _fav_add putting
\* the trimmed city, new to the list, at its end, or by _fav_remove taking the
\* box's current name out, and the changed list is saved in the same step;
\* _fav_add with a blank city or a city in the list, and _fav_remove with a
\* name not in the list, change nothing.
C16_FavoritesAreAnOrderedSet ==
    [][/\ NoDuplicates(prefs'.favorites)
       /\ \A i \in 1..Len(prefs'.favorites) : prefs'.favorites[i] # <<>>
       /\ prefs'.favorites # prefs.favorites =>
             /\ disk' = <<prefs'>>
             /\ fav_box'.items = prefs'.favorites
             /\ \/ /\ FavAdd
                   /\ ~InSeq(Strip(city_edit), prefs.favorites)
                   /\ prefs'.favorites = Append(prefs.favorites, Strip(city_edit))
                \/ /\ FavRemove
                   /\ InSeq(fav_box.current, prefs.favorites)
                   /\ prefs'.favorites = Without(prefs.favorites, fav_box.current)
       /\ (Strip(city_edit) = <<>> \/ InSeq(Strip(city_edit), prefs.favorites))
             => ~FavAdd
       /\ ~InSeq(Strip(fav_box.current), prefs.favorites) => ~FavRemove]_vars

\* C16 witness: two favorites in the order they were added, saved; the city
\* in the line edit is one of them, untrimmed, and the box's current name the
\* other.
C16_Witness ==
    /\ prefs.favorites = <<NameA, <<"b">> >>
    /\ disk = <<prefs>>
    /\ city_edit = <<SP, "b", SP>>
    /\ fav_box.current = NameA

\* the table of conditions by weather code
ClassOf(code) ==
    CASE code = 0 -> "clear"
      [] code \in {1, 2, 3} -> "clouds"
      [] code \in {45, 48} -> "fog"
      [] code \in 51..60 -> "drizzle"
      [] code \in 61..67 -> "rain"
      [] code \in 71..77 -> "snow"
      [] code \in 80..82 -> "showers"
      [] code \in 95..99 -> "storm"
      [] OTHER -> "default"

\* for each condition the least code the table puts there (4 for "default")
LeastCodeOf(class) ==
    CASE class = "clear" -> 0
      [] class = "clouds" -> 1
      [] class = "fog" -> 45
      [] class = "drizzle" -> 51
      [] class = "rain" -> 61
      [] class = "snow" -> 71
      [] class = "showers" -> 80
      [] class = "storm" -> 95
      [] OTHER -> 4

\* the glyph of a condition: the glyph of that one code, whatever code of
\* the condition is shown
GlyphOf(class) == EmojiFromCode(LeastCodeOf(class))

\* C17: for every weather code the condition shown is the one the table
\* gives, "default" for every code outside its ranges, and the glyph shown
\* depends on the code through its condition only; so for the glyph of each
\* daily card.
C17_ClassifyMatchesTable ==
    Shown =>
        LET code == weather.current_weather.weathercode.v
        IN  /\ view.header.cond = ClassOf(code)
            /\ view.theme = ClassOf(code)
            /\ view.icon = GlyphOf(ClassOf(code))
            /\ \A i \in 1..Len(view.daily) :
                  view.daily[i].glyph =
                     GlyphOf(ClassOf(ValueOr0(weather.daily.weathercode, i)))

\* C17 witness: code 100, one past the storm codes, is shown as "default".
C17_Witness ==
    /\ Shown
    /\ weather.current_weather.weathercode = Num(100)
    /\ view.header.cond = "default"
    /\ view.icon = "sun behind small cloud"

\* C18: no request is sent again on its own.  A step in which fetch() accepts
\* a city adds exactly one geocode request, for that city, to the requests in
\* flight; every other step that changes the requests in flight either only
\* takes one request out, or trades a geocode request for one forecast
\* request of the same run; the step that answers a geocode reply with "Not
\* found" (the reply failed or has no results) only takes its request out,
\* and so does every step that handles a forecast reply.  The requests in
\* flight never outnumber the cities accepted.
C18_NoAutomaticRetry ==
    [][/\ runs' # runs =>
             /\ runs' = runs + 1
             /\ inflight' = inflight (+)
                              SetToBag({GeocodeRequest(Strip(city_edit'))})
       /\ (runs' = runs /\ inflight' # inflight) =>
             \E r \in BagToSet(inflight) :
                \/ inflight' = inflight (-) SetToBag({r})
                \/ /\ r.kind = "geocode"
                   /\ dialogs' = dialogs
                   /\ \E q \in NewForecasts :
                         /\ q.name = r.name
                         /\ inflight' = (inflight (-) SetToBag({r}))
                                            (+) SetToBag({q})
       /\ dialogs' = Append(dialogs, "Not found") =>
             \E r \in BagToSet(inflight) :
                r.kind = "geocode" /\ inflight' = inflight (-) SetToBag({r})
       /\ BagCardinality(inflight') <= runs']_vars

\* C18 witness: two cities were accepted; one run has ended on a failed
\* forecast reply, the other on a geocode reply without results, and no
\* request is left in flight.
C18_Witness ==
    /\ runs = 2
    /\ inflight = EmptyBag
    /\ view.header = [temp |-> 0, unit |-> prefs.unit, cond |-> "clear"]
    /\ TopDialog = "Not found"

\* C19: the Fetch button is disabled whenever a geocode or forecast request
\* is in flight, whichever control started the run.
C19_DisabledWhileInFlight == inflight # EmptyBag => ~fetch_btn

\* C20: the unit letter and the wind unit displayed with a forecast are those
\* of the unit tokens sent in the forecast request whose reply is displayed.
C20_DisplayedUnitsAreRequestedUnits ==
    [][\A r \in BagToSet(inflight) :
          (r.kind = "forecast" /\ OnReply(r, "forecast")) =>
              /\ view'.header.unit = (IF r.tunit = "fahrenheit" THEN "F" ELSE "C")
              /\ view'.subheader.unit = (IF r.wunit = "mph" THEN "mph"
                                         ELSE "km/h")]_vars

=============================================================================
